---- MODULE Spec2Model ----
(***************************************************************************)
(* Model of the MCP tool-calling core of whispo:                           *)
(*   src/src/main/simple_mcp_client.py   (SimpleMCPClient)                 *)
(*   src/src/main/litellm_mcp_service.py (LiteLLMMCPService)               *)
(*                                                                         *)
(* One SimpleMCPClient is driven by one sequential caller that invokes     *)
(* connect_to_all_servers(), process_transcript_with_llm() and cleanup()   *)
(* in any order.  connect_to_all_servers() runs one connect_to_server()    *)
(* coroutine per configured server under asyncio.gather; the coroutines    *)
(* interleave at their awaits (subprocess creation, the two bounded        *)
(* readline waits).  The child processes are the environment: what a child *)
(* does during the handshake is its script, drawn when the attempt starts. *)
(***************************************************************************)
EXTENDS Naturals, Sequences, FiniteSets, TLC

(* ------------------------------ bounds --------------------------------- *)

\* How many times connect_to_all_servers() is called on one client.
MaxConnects == 2

\* How many child processes the system lets the client spawn in all; once
\* they are used up, create_subprocess_exec fails.
MaxProcs == 2

(* --------------------------- input domains ----------------------------- *)

Servers == {"s1", "s2"}

\* Python's None, and its rendering by str()/f-strings.
None == "None"

\* What a child does with the initialize exchange of connect_to_server.
Scripts ==
  {"launch_error", "write_error", "silent", "eof", "badjson", "noresult",
   "notif_error", "ok"}

\* Raw tool entries of a tools/list result; `name` and `description` are
\* optional members, so an entry is a record whose domain says which it has.
EchoX == [name |-> "echo", description |-> "x"]
EchoY == [name |-> "echo", description |-> "y"]
AddTool == [name |-> "add"]
Nameless == [description |-> "x"]

\* The tools/list results a server may declare: empty, one tool, two tools
\* (the second without description), a redeclared name, an entry without name.
ToolLists ==
  {<<>>, <<EchoX>>, <<EchoX, AddTool>>, <<EchoX, EchoY>>, <<EchoX, Nameless>>}

Transcripts == {"hi", ""}

\* The configuration file: absent, not JSON, JSON without 'mcpServers', or a
\* mapping whose entries (in file order) may lack the required 'command'.
Entry(n, c) == [name |-> n, hasCommand |-> c]

ConfigEntries ==
  {<<>>, <<Entry("s1", TRUE)>>, <<Entry("s1", TRUE), Entry("s2", TRUE)>>,
   <<Entry("s1", TRUE), Entry("s2", FALSE)>>, <<Entry("s1", FALSE), Entry("s2", TRUE)>>}

Configs ==
  {[kind |-> k, entries |-> <<>>] : k \in {"absent", "unparseable", "nosection"}}
    \cup {[kind |-> "ok", entries |-> e] : e \in ConfigEntries}

\* One child process per server and connect_to_all_servers() call.
Pids == Servers \X (1..MaxConnects)

(* -------------------- Python dict (insertion ordered) ------------------ *)

DictKeys(d) == {d[i].k : i \in 1..Len(d)}

DictGet(d, key) == d[CHOOSE i \in 1..Len(d) : d[i].k = key].v

DictSet(d, key, val) ==
  IF key \in DictKeys(d)
    THEN [i \in 1..Len(d) |-> IF d[i].k = key THEN [k |-> key, v |-> val] ELSE d[i]]
    ELSE Append(d, [k |-> key, v |-> val])

(* ------------------------------- state --------------------------------- *)

VARIABLES
  config,       \* the configuration file at config_path
  servers,      \* self.servers (its keys)
  processes,    \* self.processes: dict server name -> child process
  tools_cache,  \* self.tools_cache: dict server name -> list of tools
  request_id,   \* self.request_id
  proc,         \* the child processes, by pid
  script,       \* what each server's child does in the current handshake
  answered,     \* what each server's child answered to initialize, this call
  declared,     \* the tools/list result behind each tools_cache entry
  loadedIn,     \* the connect_to_all_servers() call that stored each entry
  taskPc,       \* where each connect_to_server coroutine stands
  taskRes,      \* what each connect_to_server coroutine returned
  mainPc,       \* what the caller is awaiting: idle, connecting, cleaning
  connects,     \* number of connect_to_all_servers() calls so far
  cleanAt,      \* position in self.processes whose process.wait() cleanup awaits
  cleanRun,     \* consecutive cleanup() calls completed most recently
  call,         \* the process_transcript_with_llm() call that has just returned
  outbox,       \* the messages written to each server's child, this call
  inbox         \* the JSON lines read from each server's child, this call

vars ==
  <<config, servers, processes, tools_cache, request_id, proc, script, answered,
    declared, loadedIn, taskPc, taskRes, mainPc, connects, cleanAt, cleanRun, call,
    outbox, inbox>>

NoCall == [done |-> FALSE]

\* A child: unborn, running or exited; how many times terminate() was called
\* on it; whether it ignores the termination signal.
Unborn == [status |-> "unborn", terms |-> 0, ignores |-> FALSE]

Undeclared == [listed |-> FALSE, raw |-> <<>>]

NoScripts == [s \in Servers |-> "launch_error"]
NoAnswers == [s \in Servers |-> "none"]
NoTasks == [s \in Servers |-> "none"]
NoResults == [s \in Servers |-> FALSE]
NoMessages == [s \in Servers |-> <<>>]

Init ==
  /\ config \in Configs
  /\ servers = {}
  /\ processes = <<>>
  /\ tools_cache = <<>>
  /\ request_id = 0
  /\ proc = [p \in Pids |-> Unborn]
  /\ script = NoScripts
  /\ answered = NoAnswers
  /\ declared = [s \in Servers |-> Undeclared]
  /\ loadedIn = [s \in Servers |-> 0]
  /\ taskPc = NoTasks
  /\ taskRes = NoResults
  /\ mainPc = "idle"
  /\ connects = 0
  /\ cleanAt = 0
  /\ cleanRun = 0
  /\ call = NoCall
  /\ outbox = NoMessages
  /\ inbox = NoMessages

(* ------------------------ load_servers_config -------------------------- *)

\* Index of the first entry whose construction raises KeyError('command');
\* entries before it have already been stored in self.servers.
FirstBadEntry(e) ==
  IF \E i \in 1..Len(e) : ~e[i].hasCommand
    THEN CHOOSE i \in 1..Len(e) :
           ~e[i].hasCommand /\ \A j \in 1..(i - 1) : e[j].hasCommand
    ELSE Len(e) + 1

load_servers_config(srv, cfg) ==
  IF cfg.kind # "ok"
    THEN srv
    ELSE srv \cup {cfg.entries[i].name : i \in 1..(FirstBadEntry(cfg.entries) - 1)}

(* -------------------------- connect_to_server -------------------------- *)

\* The child process of server s in the current connect_to_all_servers().
Pid(s) == <<s, connects>>

\* Variant: the counter is read without being advanced.
same_request_id(rid) == rid

\* Lines 51-54: the counter after `self.request_id += 1`, which is also the
\* id returned; no await separates the increment from the return.
next_request_id(rid) == rid + 1

\* Lines 122-137, 164-167 and 191-195: the three messages the client writes.
InitializeRequest(id) == [jsonrpc |-> "2.0", id |-> id, method |-> "initialize"]

InitializedNotification == [jsonrpc |-> "2.0", method |-> "notifications/initialized"]

ToolsListRequest(id) == [jsonrpc |-> "2.0", id |-> id, method |-> "tools/list"]

\* Variant: a coroutine that fails takes its siblings down with it.
SettleAbortingSiblings(s, r) ==
  /\ taskPc' = [t \in Servers |->
                  IF t = s \/ (~r /\ taskPc[t] # "none") THEN "done" ELSE taskPc[t]]
  /\ taskRes' = [taskRes EXCEPT ![s] = r]

\* A connect_to_server coroutine returns r; its siblings are not touched.
Settle(s, r) ==
  /\ taskPc' = [taskPc EXCEPT ![s] = "done"]
  /\ taskRes' = [taskRes EXCEPT ![s] = r]

\* A line that parses as the JSON object obj.
Line(obj) == [kind |-> "line", parses |-> TRUE, obj |-> obj]

\* What process.stdout.readline() under wait_for can yield for the initialize
\* request with the given id, by the child's script.  A child that answers
\* with a result may echo the request id, use another id or none, or add an
\* 'error' member to its result.
InitResponses(sc, id) ==
  CASE sc = "silent" -> {[kind |-> "timeout"]}
    [] sc = "eof" -> {[kind |-> "eof"]}
    [] sc = "badjson" -> {[kind |-> "line", parses |-> FALSE]}
    [] sc = "noresult" -> {Line([jsonrpc |-> "2.0", id |-> id, error |-> "e"])}
    [] sc = "notif_error" -> {Line([jsonrpc |-> "2.0", id |-> id, result |-> "r"])}
    [] OTHER ->
         {Line([jsonrpc |-> "2.0", id |-> id, result |-> "r"]),
          Line([jsonrpc |-> "2.0", id |-> id + 1, result |-> "r"]),
          Line([jsonrpc |-> "2.0", result |-> "r"]),
          Line([jsonrpc |-> "2.0", id |-> id, result |-> "r", error |-> "e"])}

\* Variant: readline() awaited without a timeout.
WaitWithoutTimeout(out) == out.kind \in {"line", "eof"}

\* asyncio.wait_for(process.stdout.readline(), timeout=5.0) completes when a
\* line arrives, when the stream closes, and when the timeout expires.
WaitForCompletes(out) == out.kind \in {"line", "eof", "timeout"}

\* Variant: any JSON response is taken for a successful initialization.
HandshakeOkWithoutResult(out) == out.kind = "line" /\ out.parses

\* Lines 150-159: the response is non-empty, parses as JSON and has 'result'.
HandshakeOk(out) ==
  /\ out.kind = "line"
  /\ out.parses
  /\ "result" \in DOMAIN out.obj

\* What the child answered to a request, recorded on the child: the kind of
\* wait outcome, and for a line whether it is JSON and carries 'result'.
Answer(out) ==
  IF out.kind # "line"
    THEN out.kind
    ELSE IF ~out.parses
      THEN "badjson"
      ELSE IF "result" \in DOMAIN out.obj THEN "result" ELSE "noresult"

Spawned == Cardinality({p \in Pids : proc[p].status # "unborn"})

StartConnectAll ==
  /\ mainPc = "idle"
  /\ connects < MaxConnects
  /\ connects' = connects + 1
  /\ servers' = load_servers_config(servers, config)
  /\ cleanRun' = 0
  /\ call' = NoCall
  /\ IF servers' = {}
       THEN /\ mainPc' = "idle"
            /\ UNCHANGED <<taskPc, script>>
       ELSE /\ mainPc' = "connecting"
            /\ taskPc' = [s \in Servers |-> IF s \in servers' THEN "spawn" ELSE "none"]
            /\ \E sc \in [servers' -> Scripts] :
                 /\ Cardinality({s \in servers' : sc[s] # "launch_error"})
                      <= MaxProcs - Spawned
                 /\ script' = [s \in Servers |->
                                 IF s \in servers' THEN sc[s] ELSE "launch_error"]
  /\ UNCHANGED <<config, processes, tools_cache, request_id, proc, answered, declared,
                 loadedIn, taskRes, cleanAt, outbox, inbox>>

\* create_subprocess_exec returns or raises; on success the initialize request
\* takes the next request id and is written to the child's stdin.
Spawn(s) ==
  /\ mainPc = "connecting"
  /\ taskPc[s] = "spawn"
  /\ CASE script[s] = "launch_error" ->
            /\ Settle(s, FALSE)
            /\ UNCHANGED <<proc, request_id>>
            /\ UNCHANGED outbox
       [] script[s] = "write_error" ->
            /\ \E st \in {"running", "exited"} :
                 proc' = [proc EXCEPT ![Pid(s)].status = st]
            /\ request_id' = next_request_id(request_id)
            /\ Settle(s, FALSE)
            /\ UNCHANGED outbox
       [] OTHER ->
            /\ proc' = [proc EXCEPT ![Pid(s)].status = "running"]
            /\ request_id' = next_request_id(request_id)
            /\ outbox' = [outbox EXCEPT ![s] = <<InitializeRequest(request_id')>>]
            /\ taskPc' = [taskPc EXCEPT ![s] = "init_wait"]
            /\ UNCHANGED taskRes
  /\ UNCHANGED <<config, servers, processes, tools_cache, script, answered, declared,
                 loadedIn, mainPc, connects, cleanAt, cleanRun, call, inbox>>

\* Variant: tools/list is requested without announcing the initialization.
HandshakeTailUnannounced(id) == <<ToolsListRequest(id)>>

\* Lines 163-171 and 190-199: what the client writes once the initialize
\* response is accepted, when both writes succeed.
HandshakeTail(id) == <<InitializedNotification, ToolsListRequest(id)>>

\* The JSON lines read so far, with the outcome of one more wait.
Read(box, out) ==
  IF out.kind = "line" /\ out.parses THEN Append(box, out.obj) ELSE box

\* Lines 176-177 and 187-199: store the process, then _load_tools takes the
\* next request id and writes tools/list; a failed write ends in its except
\* clause, which stores the empty list.
StoreAndRequestTools(s) ==
  /\ processes' = DictSet(processes, s, Pid(s))
  /\ request_id' = next_request_id(request_id)
  /\ \/ /\ outbox' = [outbox EXCEPT ![s] = @ \o HandshakeTail(request_id')]
        /\ taskPc' = [taskPc EXCEPT ![s] = "tools_wait"]
        /\ UNCHANGED <<taskRes, tools_cache, declared, loadedIn>>
     \/ /\ outbox' = [outbox EXCEPT ![s] = Append(@, InitializedNotification)]
        /\ tools_cache' = DictSet(tools_cache, s, <<>>)
        /\ declared' = [declared EXCEPT ![s] = Undeclared]
        /\ loadedIn' = [loadedIn EXCEPT ![s] = connects]
        /\ Settle(s, TRUE)

\* The bounded wait for the initialize response ends.  On a response with
\* 'result': send notifications/initialized, store the process, and start
\* _load_tools, all before the next await.
InitWait(s) ==
  /\ mainPc = "connecting"
  /\ taskPc[s] = "init_wait"
  /\ \E out \in InitResponses(script[s], outbox[s][1].id) :
       /\ WaitForCompletes(out)
       /\ answered' = [answered EXCEPT ![s] = Answer(out)]
       /\ inbox' = [inbox EXCEPT ![s] = Read(@, out)]
       /\ proc' = [proc EXCEPT ![Pid(s)].status = IF out.kind = "eof" THEN "exited" ELSE @]
       /\ IF HandshakeOk(out) /\ script[s] # "notif_error"
            THEN StoreAndRequestTools(s)
            ELSE /\ Settle(s, FALSE)
                 /\ UNCHANGED <<processes, tools_cache, request_id, declared, loadedIn,
                                outbox>>
  /\ UNCHANGED <<config, servers, script, mainPc, connects, cleanAt, cleanRun, call>>

(* ----------------------------- _load_tools ----------------------------- *)

\* Lines 216-224: one raw entry converted to the OpenAI function format.  The
\* opaque inputSchema is passed through unchanged and is left out here; the
\* converted entry has no 'server_name' member.
OpenAITool(tool) ==
  [type |-> "function",
   function |->
     [name |-> tool.name,
      description |->
        IF "description" \in DOMAIN tool THEN tool.description ELSE ""]]

\* Variant: the entries converted before the first one without a name are kept.
LoadedToolsUpToMalformed(out) ==
  IF /\ out.kind = "line"
     /\ out.parses
     /\ "result" \in DOMAIN out.obj
     /\ "tools" \in DOMAIN out.obj.result
    THEN LET tools == out.obj.result.tools
             named == {n \in 0..Len(tools) : \A i \in 1..n : "name" \in DOMAIN tools[i]}
             last == CHOOSE n \in named : \A m \in named : m <= n
         IN [i \in 1..last |-> OpenAITool(tools[i])]
    ELSE <<>>

\* Lines 207-237: what _load_tools stores in tools_cache for a wait outcome.
\* A timeout, an unparseable line and a KeyError on tool["name"] all end in
\* the except clause, which stores the empty list.
LoadedTools(out) ==
  IF /\ out.kind = "line"
     /\ out.parses
     /\ "result" \in DOMAIN out.obj
     /\ "tools" \in DOMAIN out.obj.result
     /\ \A i \in 1..Len(out.obj.result.tools) :
          "name" \in DOMAIN out.obj.result.tools[i]
    THEN [i \in 1..Len(out.obj.result.tools) |-> OpenAITool(out.obj.result.tools[i])]
    ELSE <<>>

\* What the tools/list wait can yield for child p and the request with the
\* given id.  A child that lists one tool may use another id, or none.
ToolsResponses(p, id) ==
  IF proc[p].status = "exited"
    THEN {[kind |-> "eof"]}
    ELSE {[kind |-> "timeout"],
          [kind |-> "line", parses |-> FALSE],
          Line([jsonrpc |-> "2.0", id |-> id, error |-> "e"]),
          Line([jsonrpc |-> "2.0", id |-> id, result |-> [other |-> "o"]]),
          Line([jsonrpc |-> "2.0", id |-> id + 1, result |-> [tools |-> <<EchoX>>]]),
          Line([jsonrpc |-> "2.0", result |-> [tools |-> <<EchoX>>]])}
         \cup {Line([jsonrpc |-> "2.0", id |-> id, result |-> [tools |-> l]]) :
               l \in ToolLists}

\* The tool list the child declared, if the line is a tools/list result.
Declared(out) ==
  IF Answer(out) = "result" /\ "tools" \in DOMAIN out.obj.result
    THEN [listed |-> TRUE, raw |-> out.obj.result.tools]
    ELSE Undeclared

ToolsWait(s) ==
  /\ mainPc = "connecting"
  /\ taskPc[s] = "tools_wait"
  /\ \E out \in ToolsResponses(DictGet(processes, s), outbox[s][Len(outbox[s])].id) :
       /\ WaitForCompletes(out)
       /\ inbox' = [inbox EXCEPT ![s] = Read(@, out)]
       /\ tools_cache' = DictSet(tools_cache, s, LoadedTools(out))
       /\ declared' = [declared EXCEPT ![s] = Declared(out)]
  /\ loadedIn' = [loadedIn EXCEPT ![s] = connects]
  /\ Settle(s, TRUE)
  /\ UNCHANGED <<config, servers, processes, request_id, proc, script, answered,
                 mainPc, connects, cleanAt, cleanRun, call, outbox>>

(* ----------------------- connect_to_all_servers ------------------------ *)

\* Every connect_to_server coroutine of this call has returned.
AllSettled == mainPc = "connecting" /\ \A s \in servers : taskPc[s] = "done"

\* asyncio.gather returns once every coroutine has returned.
FinishConnectAll ==
  /\ AllSettled
  /\ mainPc' = "idle"
  /\ script' = NoScripts
  /\ answered' = NoAnswers
  /\ taskPc' = NoTasks
  /\ taskRes' = NoResults
  /\ outbox' = NoMessages
  /\ inbox' = NoMessages
  /\ UNCHANGED <<config, servers, processes, tools_cache, request_id, proc, declared,
                 loadedIn, connects, cleanAt, cleanRun, call>>

(* ------------------------------ children ------------------------------- *)

\* The handshake of child p is still being waited for; what the child does
\* until that wait ends is its script.
InHandshake(p) == p[2] = connects /\ taskPc[p[1]] = "init_wait"

\* A child that was not asked to terminate exits on its own.
Crash(p) ==
  /\ proc[p].status = "running"
  /\ proc[p].terms = 0
  /\ ~InHandshake(p)
  /\ proc' = [proc EXCEPT ![p].status = "exited"]
  /\ call' = NoCall
  /\ UNCHANGED <<config, servers, processes, tools_cache, request_id, script, answered,
                 declared, loadedIn, taskPc, taskRes, mainPc, connects, cleanAt,
                 cleanRun, outbox, inbox>>

\* A child that was asked to terminate, and honours the request, exits.
TermExit(p) ==
  /\ proc[p].status = "running"
  /\ proc[p].terms > 0
  /\ ~proc[p].ignores
  /\ proc' = [proc EXCEPT ![p].status = "exited"]
  /\ call' = NoCall
  /\ UNCHANGED <<config, servers, processes, tools_cache, request_id, script, answered,
                 declared, loadedIn, taskPc, taskRes, mainPc, connects, cleanAt,
                 cleanRun, outbox, inbox>>

(* ------------------------------- cleanup ------------------------------- *)

\* The servers with a running process in self.processes.
Live ==
  {processes[i].k : i \in {j \in 1..Len(processes) : proc[processes[j].v].status = "running"}}

\* Variant: terminate() is called whatever the return code.
ReturncodeUnchecked(p) == TRUE

\* Line 266: process.returncode is None.
ReturncodeIsNone(p) == proc[p].status = "running"

\* The first position from i on in self.processes whose process is to be
\* terminated; 0 when the loop runs to its end.
NextToTerminate(i) ==
  IF \E j \in i..Len(processes) : ReturncodeIsNone(processes[j].v)
    THEN CHOOSE j \in i..Len(processes) :
           /\ ReturncodeIsNone(processes[j].v)
           /\ \A h \in i..(j - 1) : ~ReturncodeIsNone(processes[h].v)
    ELSE 0

\* Lines 265-268 from position i to the next await: skip the processes that
\* have a return code, call terminate() on the first that has none and await
\* its wait(), or leave the loop.
CleanupFrom(i) ==
  LET j == NextToTerminate(i) IN
  IF j = 0
    THEN /\ mainPc' = "idle"
         /\ cleanAt' = 0
         /\ cleanRun' = IF cleanRun < 2 THEN cleanRun + 1 ELSE cleanRun
         /\ UNCHANGED proc
    ELSE /\ mainPc' = "cleaning"
         /\ cleanAt' = j
         /\ cleanRun' = cleanRun
         /\ \E ig \in BOOLEAN :
              proc' = [proc EXCEPT ![processes[j].v].terms = @ + 1,
                                   ![processes[j].v].ignores = ig]

StartCleanup ==
  /\ mainPc = "idle"
  /\ CleanupFrom(1)
  /\ call' = NoCall
  /\ UNCHANGED <<config, servers, processes, tools_cache, request_id, script, answered,
                 declared, loadedIn, taskPc, taskRes, connects, outbox, inbox>>

\* await process.wait() returns once the process has exited.
CleanupWait ==
  /\ mainPc = "cleaning"
  /\ proc[processes[cleanAt].v].status = "exited"
  /\ CleanupFrom(cleanAt + 1)
  /\ UNCHANGED <<config, servers, processes, tools_cache, request_id, script, answered,
                 declared, loadedIn, taskPc, taskRes, connects, call, outbox, inbox>>

(* ------------------------- get_all_tools, process ---------------------- *)

RECURSIVE Flatten(_)
Flatten(d) == IF d = <<>> THEN <<>> ELSE Head(d).v \o Flatten(Tail(d))

\* Variant: the loop returns after the first server.
get_first_tools == IF tools_cache = <<>> THEN <<>> ELSE Head(tools_cache).v

\* Lines 256-261: the lists of tools_cache, concatenated in dict order.
get_all_tools == Flatten(tools_cache)

\* tool.get('server_name')
ServerNameOf(tool) ==
  IF "server_name" \in DOMAIN tool THEN tool.server_name ELSE None

\* Lines 172-178: the 'server_name' of the first tool with the called name.
extract_server_name_from_tool(tool_name, tools) ==
  IF \E i \in 1..Len(tools) : tools[i].function.name = tool_name
    THEN ServerNameOf(tools[CHOOSE i \in 1..Len(tools) :
                              /\ tools[i].function.name = tool_name
                              /\ \A j \in 1..(i - 1) :
                                   tools[j].function.name # tool_name])
    ELSE None

\* What litellm.acompletion does: raise, return a response without choices,
\* return a message without tool calls, or return a message whose first tool
\* call names a tool.
LLMOutcomes ==
  {[kind |-> "raises"], [kind |-> "no_choices"], [kind |-> "text"]}
    \cup {[kind |-> "tool_call", name |-> n] : n \in {"echo", "zap"}}

\* ToolCallResult; an absent error, tool_name or server_name is None.
NoError == <<>>

ToolCallResult(success, content, error, tool_name, server_name) ==
  [success |-> success, content |-> content, error |-> error,
   tool_name |-> tool_name, server_name |-> server_name]

\* Variant: the test looks at the connected servers instead of the tools.
NoServers(tools) == processes = <<>>

\* Line 82: `if not tools`.
NoTools(tools) == tools = <<>>

\* Lines 84-88.
NoToolsResult(transcript) ==
  ToolCallResult(FALSE, transcript, <<"No MCP tools available">>, None, None)

\* Variant: the resolved server is used without being looked up.
ServerUnchecked(server_name) == FALSE

\* Line 125.
ServerUnavailable(server_name) ==
  server_name = None \/ server_name \notin DictKeys(processes)

\* Lines 156-161: one line of the system prompt per tool, as the pieces the
\* f-string joins; a missing 'server_name' is rendered as 'unknown'.
PromptLine(tool) ==
  <<"- ",
    IF "server_name" \in DOMAIN tool THEN tool.server_name ELSE "unknown",
    ":",
    IF "name" \in DOMAIN tool.function THEN tool.function.name ELSE "unknown",
    " - ",
    IF "description" \in DOMAIN tool.function
      THEN tool.function.description ELSE "No description">>

\* Lines 154-170: the tool lines of the system prompt, in catalog order.
create_system_prompt(tools) == [i \in 1..Len(tools) |-> PromptLine(tools[i])]

\* What a try body ends in: a returned value or a raised exception.
Returned(value) == [raised |-> FALSE, value |-> value]

Raised(e) == [raised |-> TRUE, exc |-> e]

\* Lines 110-144: the try body once litellm.acompletion has answered or
\* raised; indexing an empty `choices` raises IndexError.
TryAfterLLM(transcript, tools, llm) ==
  CASE llm.kind = "raises" -> Raised(<<"litellm error">>)
    [] llm.kind = "no_choices" -> Raised(<<"list index out of range">>)
    [] llm.kind = "text" ->
         Returned(ToolCallResult(TRUE, transcript, NoError, None, None))
    [] OTHER ->
         LET server_name == extract_server_name_from_tool(llm.name, tools) IN
         IF ServerUnavailable(server_name)
           THEN Returned(ToolCallResult(
                  FALSE, transcript,
                  <<"Server '", server_name, "' not available for tool call">>,
                  None, None))
           ELSE Returned(ToolCallResult(TRUE, transcript, NoError, llm.name, server_name))

\* Variant: the handler swallows the exception and reports success.
ExceptionSwallowed(transcript, e) ==
  ToolCallResult(TRUE, transcript, NoError, None, None)

\* Lines 146-152: the except clause of process_transcript_with_llm.
OnException(transcript, e) == ToolCallResult(FALSE, transcript, e, None, None)

\* Lines 110-152: the result once litellm.acompletion has answered.
AfterLLM(transcript, tools, llm) ==
  LET outcome == TryAfterLLM(transcript, tools, llm) IN
  IF outcome.raised THEN OnException(transcript, outcome.exc) ELSE outcome.value

\* process_transcript_with_llm, lines 74-152.  `call` keeps, until the next
\* step, the input, whether and with which tools and tool lines of the system
\* prompt the LLM was called, what it answered, and the result.
Process ==
  /\ mainPc = "idle"
  /\ LET tools == get_all_tools IN
       IF NoTools(tools)
         THEN \E transcript \in Transcripts :
                call' = [done |-> TRUE, transcript |-> transcript,
                         llmCalled |-> FALSE, llmTools |-> <<>>, prompt |-> <<>>,
                         llm |-> [kind |-> "none"],
                         result |-> NoToolsResult(transcript)]
         ELSE \E transcript \in Transcripts, llm \in LLMOutcomes :
                call' = [done |-> TRUE, transcript |-> transcript,
                         llmCalled |-> TRUE, llmTools |-> tools,
                         prompt |-> create_system_prompt(tools), llm |-> llm,
                         result |-> AfterLLM(transcript, tools, llm)]
  /\ cleanRun' = 0
  /\ UNCHANGED <<config, servers, processes, tools_cache, request_id, proc, script,
                 answered, declared, loadedIn, taskPc, taskRes, mainPc, connects,
                 cleanAt, outbox, inbox>>

(* --------------------------- specification ----------------------------- *)

Next ==
  \/ StartConnectAll
  \/ \E s \in Servers : Spawn(s)
  \/ \E s \in Servers : InitWait(s)
  \/ \E s \in Servers : ToolsWait(s)
  \/ FinishConnectAll
  \/ Process
  \/ StartCleanup
  \/ CleanupWait
  \/ \E p \in Pids : Crash(p)
  \/ \E p \in Pids : TermExit(p)

Spec == Init /\ [][Next]_vars

\* The event loop runs every coroutine that can run, a timer that was set
\* expires, and a child that honours the termination signal exits.
Fairness ==
  /\ \A s \in Servers : WF_vars(Spawn(s)) /\ WF_vars(InitWait(s)) /\ WF_vars(ToolsWait(s))
  /\ WF_vars(FinishConnectAll)
  /\ WF_vars(CleanupWait)
  /\ \A p \in Pids : WF_vars(TermExit(p))

FairSpec == Spec /\ Fairness

(* ------------------------------ properties ----------------------------- *)

\* The caller is idle and the call it completed last was cleanup().
AfterCleanup == mainPc = "idle" /\ cleanRun >= 1

\* Server s was connected in the current connect_to_all_servers(): its child
\* of this call is the process stored for it.
ConnectedNow(s) ==
  s \in DictKeys(processes) /\ DictGet(processes, s) = Pid(s)

\* No child of server s was spawned before the current call.
FirstChild(s) == \A r \in 1..(connects - 1) : proc[<<s, r>>].status = "unborn"

\* C1: once a cleanup() that follows connect_to_all_servers() has completed,
\* every child process that was spawned has been terminated, whatever became
\* of its handshake: none is left running.
C1_CleanupReachesEverySpawned ==
  AfterCleanup => \A p \in Pids : proc[p].status # "running"

C3_OwnerOfEveryToolIsLive ==
  mainPc = "idle" =>
    \A i \in 1..Len(get_all_tools) :
      extract_server_name_from_tool(get_all_tools[i].function.name, get_all_tools)
        \in Live

\* C4: cleanup() always completes, with every process of self.processes
\* exited, also when a process does not exit on the termination request.
C4_CleanupCompletes ==
  (mainPc = "cleaning") ~>
    (mainPc = "idle" /\ \A i \in 1..Len(processes) : proc[processes[i].v].status = "exited")

\* C5: no process is asked to terminate twice, and a cleanup() that follows a
\* completed cleanup(), or that runs on a client with no live connection,
\* completes at once and changes nothing: the only steps a caller in that position takes
\* without calling connect or process leave the client's state and the
\* termination counts as they are, and a completed cleanup() leaves the
\* children as they are.
C5_CleanupIdempotent ==
  /\ [](\A p \in Pids : proc[p].terms <= 1)
  /\ [][(/\ mainPc = "idle"
         /\ cleanRun >= 1 \/ Live = {}
         /\ connects' = connects
         /\ ~call'.done)
        => /\ mainPc' = "idle"
           /\ UNCHANGED <<servers, processes, tools_cache, request_id>>
           /\ \A p \in Pids : proc'[p].terms = proc[p].terms
           /\ cleanRun' # cleanRun => proc' = proc]_vars

\* A second cleanup() has completed after a first one that terminated a child.
C5_Witness ==
  /\ mainPc = "idle"
  /\ cleanRun = 2
  /\ \E p \in Pids : proc[p].terms = 1

\* C6: connect_to_all_servers() returns, whatever the children do; it returns
\* only when every connect_to_server coroutine has returned, and the process
\* table then holds at most as many servers as the configuration has entries.
C6_ConnectAllSettles ==
  /\ (mainPc = "connecting") ~> (mainPc = "idle")
  /\ [][(mainPc = "connecting" /\ mainPc' = "idle") => AllSettled]_vars
  /\ [](AllSettled =>
          Cardinality(DictKeys(processes)) <= Len(config.entries))

\* Every attempt has settled with one child silent and the other answering
\* with a line that is not JSON.
C6_Witness ==
  /\ AllSettled
  /\ \E s, o \in servers :
       /\ script[s] = "silent" /\ answered[s] = "timeout"
       /\ script[o] = "badjson" /\ answered[o] = "badjson"

\* C7: when every attempt of a connect_to_all_servers() has settled, a server
\* is connected, and its coroutine returned True, exactly if its own child
\* spawned and completed the handshake, whatever the other children did.
C7_AttemptsIsolated ==
  AllSettled =>
    \A s \in servers :
      /\ ConnectedNow(s) <=> script[s] = "ok"
      /\ taskRes[s] <=> script[s] = "ok"

\* One server is connected while the other failed.
C7_Witness ==
  /\ AllSettled
  /\ \E s, o \in servers :
       /\ script[s] = "ok" /\ ConnectedNow(s)
       /\ script[o] \in {"launch_error", "silent", "eof"} /\ ~ConnectedNow(o)

\* The servers of the process table whose tools/list result was a list of
\* entries that all have a name.
Listing ==
  {s \in DictKeys(processes) :
     /\ declared[s].listed
     /\ \A i \in 1..Len(declared[s].raw) : "name" \in DOMAIN declared[s].raw[i]}

\* The entries those servers declared, by server and position.
ListedSlots ==
  UNION {{<<s, i>> : i \in 1..Len(declared[s].raw)} : s \in Listing}

\* The same entries as (name, description) pairs, an absent description
\* standing as the empty string.
ListedTools ==
  {<<declared[sl[1]].raw[sl[2]].name,
     IF "description" \in DOMAIN declared[sl[1]].raw[sl[2]]
       THEN declared[sl[1]].raw[sl[2]].description ELSE "">> : sl \in ListedSlots}

\* C8: process() calls the LLM exactly if some connected server listed a tool,
\* and the tool list it passes is the tools the connected servers listed, none
\* missing and none extra; servers that failed to spawn change nothing.
C8_LLMGetsToolsOfConnected ==
  call.done =>
    /\ call.llmCalled <=> ListedSlots # {}
    /\ call.llmCalled =>
         /\ Len(call.llmTools) = Cardinality(ListedSlots)
         /\ {<<call.llmTools[i].function.name, call.llmTools[i].function.description>> :
               i \in 1..Len(call.llmTools)} = ListedTools

\* Of two configured servers one never spawned a child and the other listed
\* two tools, which process() passed to the LLM.
C8_Witness ==
  /\ call.done
  /\ call.llmCalled
  /\ servers = Servers
  /\ \E s, o \in Servers :
       /\ \A r \in 1..MaxConnects : proc[<<s, r>>].status = "unborn"
       /\ s \notin DictKeys(processes)
       /\ o \in Listing
       /\ Len(declared[o].raw) = 2
  /\ Len(call.llmTools) = 2

\* C9 as stated: with an empty catalog process() returns success=False,
\* error "no tools available" and the input as content, without an LLM call.
C9_NoToolsAsStated ==
  (call.done /\ get_all_tools = <<>>) =>
    /\ ~call.llmCalled
    /\ call.result.success = FALSE
    /\ call.result.content = call.transcript
    /\ call.result.error = <<"no tools available">>

\* C9: with an empty catalog process() returns success=False, error
\* "No MCP tools available" and the input as content, without an LLM call.
C9_NoToolsNoLLM ==
  (call.done /\ get_all_tools = <<>>) =>
    /\ ~call.llmCalled
    /\ call.result.success = FALSE
    /\ call.result.content = call.transcript
    /\ call.result.error = <<"No MCP tools available">>

\* process() ran on a client with a connected server and an empty catalog.
C9_Witness ==
  /\ call.done
  /\ get_all_tools = <<>>
  /\ processes # <<>>
  /\ call.transcript = "hi"

\* The servers whose tools_cache entry has a tool of that name.
Declaring(tool_name) ==
  {tools_cache[i].k :
     i \in {j \in 1..Len(tools_cache) :
              \E h \in 1..Len(tools_cache[j].v) :
                tools_cache[j].v[h].function.name = tool_name}}

\* C10: when the LLM requests a tool that is not in the catalog, or whose
\* declaring server is not live, process() returns success=False
\* with the input as content and an error; for a tool in the catalog the error
\* names the tool or a server that declares it.
C10_UnresolvedCallNamesOwner ==
  (/\ call.done
   /\ call.llm.kind = "tool_call"
   /\ Declaring(call.llm.name) \cap Live = {})
  => /\ call.result.success = FALSE
     /\ call.result.content = call.transcript
     /\ call.result.error # NoError
     /\ Declaring(call.llm.name) # {} =>
          \E i \in 1..Len(call.result.error) :
            call.result.error[i] \in Declaring(call.llm.name) \cup {call.llm.name}

\* C11: a tool that server S declared with name T and description D is in the
\* catalog passed to the LLM exactly once under the identity (S, T), and the
\* system prompt has the line "- S:T - D" for it.
C11_ToolRoundTrip ==
  (call.done /\ call.llmCalled) =>
    \A sl \in ListedSlots :
      LET S == sl[1]
          raw == declared[sl[1]].raw[sl[2]]
      IN "description" \in DOMAIN raw =>
           /\ Cardinality({i \in 1..Len(call.llmTools) :
                             /\ ServerNameOf(call.llmTools[i]) = S
                             /\ call.llmTools[i].function.name = raw.name}) = 1
           /\ \E i \in 1..Len(call.prompt) :
                call.prompt[i] = <<"- ", S, ":", raw.name, " - ", raw.description>>

\* The LLM call of process() raised, returned no choices, or asked for a tool
\* whose owner does not resolve to a key of self.processes.
TerminalFailure ==
  /\ call.llmCalled
  /\ \/ call.llm.kind \in {"raises", "no_choices"}
     \/ /\ call.llm.kind = "tool_call"
        /\ ServerUnavailable(extract_server_name_from_tool(call.llm.name, call.llmTools))

\* C12: process() always returns a ToolCallResult, and when the LLM call
\* raises, its response is malformed or the owner of the requested tool does
\* not resolve, the result has success=False, an error, and the input as content.
C12_FailuresDegrade ==
  call.done =>
    /\ DOMAIN call.result = {"success", "content", "error", "tool_name", "server_name"}
    /\ TerminalFailure =>
         /\ call.result.success = FALSE
         /\ call.result.content = call.transcript
         /\ call.result.error # NoError

\* process("hi") has returned after the LLM answered without choices.
C12_Witness ==
  /\ call.done
  /\ call.llm.kind = "no_choices"
  /\ call.transcript = "hi"
  /\ call.result.error = <<"list index out of range">>

\* C13: no two entries of the catalog have the same server and tool name: a
\* server's list in tools_cache never holds two tools of the same name.
C13_NoDuplicateIdentity ==
  \A k \in 1..Len(tools_cache) :
    \A i, j \in 1..Len(tools_cache[k].v) :
      i # j => tools_cache[k].v[i].function.name # tools_cache[k].v[j].function.name

\* C14: at every moment each list of tools_cache is empty or is the
\* conversion, entry by entry, of the whole tools/list result behind it; a
\* result with an entry that lacks 'name' leaves the list empty.
C14_AllOrNothing ==
  \A k \in 1..Len(tools_cache) :
    LET raw == declared[tools_cache[k].k].raw
        v == tools_cache[k].v
    IN \/ v = <<>>
       \/ /\ declared[tools_cache[k].k].listed
          /\ Len(v) = Len(raw)
          /\ \A i \in 1..Len(raw) :
               /\ "name" \in DOMAIN raw[i]
               /\ v[i] = OpenAITool(raw[i])

\* One server listed a tool followed by an entry without a name and has an
\* empty list, while the other server's two tools are both in its list.
C14_Witness ==
  \E s, o \in DictKeys(tools_cache) :
    /\ declared[s].raw = <<EchoX, Nameless>>
    /\ DictGet(tools_cache, s) = <<>>
    /\ declared[o].raw = <<EchoX, AddTool>>
    /\ Len(DictGet(tools_cache, o)) = 2

\* Loading the configuration fails: the file is absent, is not JSON, has no
\* 'mcpServers' member, or has a server entry without 'command'.
ConfigFails ==
  \/ config.kind # "ok"
  \/ \E i \in 1..Len(config.entries) : ~config.entries[i].hasCommand

\* C15: when loading the configuration fails, self.servers stays empty and
\* connect_to_all_servers() goes on with no server and an empty catalog.
C15_BadConfigMeansNoServers ==
  (connects >= 1 /\ ConfigFails) =>
    /\ servers = {}
    /\ processes = <<>>
    /\ get_all_tools = <<>>

\* The numbered positions of the requests among the messages sent to s.
RequestSlots(s) == {i \in 1..Len(outbox[s]) : "id" \in DOMAIN outbox[s][i]}

\* C16: however the connection attempts interleave, the ids of the requests
\* sent on one session increase strictly in sending order, no two requests of
\* the sessions of a call have the same id, and every request that is sent
\* has an id above the counter value before it, which never goes down, so no
\* id is used for two requests.
C16_RequestIdsFresh ==
  /\ [](\A s \in Servers : \A i, j \in RequestSlots(s) :
          i < j => outbox[s][i].id < outbox[s][j].id)
  /\ [](\A s, o \in Servers : \A i \in RequestSlots(s), j \in RequestSlots(o) :
          <<s, i>> # <<o, j>> => outbox[s][i].id # outbox[o][j].id)
  /\ [](\A s \in Servers : \A i \in RequestSlots(s) : outbox[s][i].id <= request_id)
  /\ [][/\ request_id' >= request_id
        /\ \A s \in Servers : \A i \in (Len(outbox[s]) + 1)..Len(outbox'[s]) :
             "id" \in DOMAIN outbox'[s][i] =>
               /\ outbox'[s][i].id > request_id
               /\ outbox'[s][i].id <= request_id']_vars

\* Two sessions have sent their requests alternately: initialize on one,
\* initialize on the other, then tools/list on each.
C16_Witness ==
  \E s, o \in Servers :
    /\ Len(outbox[s]) = 3 /\ Len(outbox[o]) = 3
    /\ outbox[s][1].id < outbox[o][1].id
    /\ outbox[o][1].id < outbox[s][3].id
    /\ outbox[s][3].id < outbox[o][3].id

\* The response carries the id of the request.
Matches(response, request) == "id" \in DOMAIN response /\ response.id = request.id

\* C17: a response counts only if its id is that of the request: during
\* connect_to_all_servers() a server whose process was stored answered
\* initialize with the id of the initialize request, and a server whose tool
\* list was filled answered tools/list with the id of that request.
C17_OnlyMatchingIdAccepted ==
  mainPc = "connecting" =>
    \A s \in Servers :
      /\ ConnectedNow(s) => Matches(inbox[s][1], outbox[s][1])
      /\ (loadedIn[s] = connects /\ DictGet(tools_cache, s) # <<>>) =>
           Matches(inbox[s][2], outbox[s][3])

\* The methods of the messages sent to s, in sending order.
Methods(s) == [i \in 1..Len(outbox[s]) |-> outbox[s][i].method]

\* C18: the messages sent on a session are, in this order, initialize,
\* notifications/initialized and tools/list, or a prefix of these, and nothing
\* follows initialize unless a response with 'result' was read first.
C18_HandshakeOrder ==
  \A s \in Servers :
    /\ \E n \in 0..3 :
         Methods(s) = SubSeq(<<"initialize", "notifications/initialized", "tools/list">>, 1, n)
    /\ Len(outbox[s]) >= 2 => inbox[s] # <<>> /\ "result" \in DOMAIN inbox[s][1]

\* One session has sent all three messages; the other was answered without
\* 'result' and has sent initialize only.
C18_Witness ==
  \E s, o \in Servers :
    /\ Len(outbox[s]) = 3
    /\ answered[o] = "noresult"
    /\ taskPc[o] = "done"
    /\ Len(outbox[o]) = 1

\* The wait for the initialize response of s ended without a line that
\* parses, or with a response that has an 'error' member.
InitFailed(s) ==
  \/ answered[s] \in {"timeout", "badjson", "eof"}
  \/ inbox[s] # <<>> /\ "error" \in DOMAIN inbox[s][1]

\* C19: when every attempt has settled, a server is connected only if its
\* initialize response had 'result'; after a timeout, a line that is not
\* JSON, a response with an 'error' member or a closed stream the server is
\* not connected and its coroutine returned False, while a server whose own
\* child completed the handshake is connected all the same.
C19_ReadyOnlyOnResult ==
  AllSettled =>
    \A s \in servers :
      /\ ConnectedNow(s) => inbox[s] # <<>> /\ "result" \in DOMAIN inbox[s][1]
      /\ InitFailed(s) =>
           /\ ~ConnectedNow(s)
           /\ ~taskRes[s]
           /\ \A o \in servers \ {s} : script[o] = "ok" => ConnectedNow(o)

\* C20: connecting a server again never leaves its earlier process running
\* and unreferenced: whenever an entry of self.processes is replaced, the
\* process it held is not running, so that a later cleanup() leaves no child
\* running that self.processes once held.
C20_ReconnectTerminatesEarlier ==
  [][\A s \in DictKeys(processes) :
       DictGet(processes', s) # DictGet(processes, s) =>
         proc'[DictGet(processes, s)].status # "running"]_vars

\* The result has an error exactly if it is not a success, and names a tool
\* or a server only if it is a success whose server is a key of self.processes.
WellFormed(result) ==
  /\ DOMAIN result = {"success", "content", "error", "tool_name", "server_name"}
  /\ result.success \in BOOLEAN
  /\ (result.error = NoError) <=> result.success
  /\ (result.tool_name # None \/ result.server_name # None) =>
       /\ result.success
       /\ result.server_name \in DictKeys(processes)

\* C21: every result process() returns is well-formed, and the step that
\* returns it leaves self.processes, self.tools_cache and self.request_id as
\* they were.
C21_ProcessWellFormedAndPure ==
  /\ [](call.done => WellFormed(call.result))
  /\ [][call'.done => UNCHANGED <<servers, processes, tools_cache, request_id>>]_vars

\* process("hi") has returned a success on a client with a connected server,
\* a tool in the catalog and request ids already issued.
C21_Witness ==
  /\ call.done
  /\ call.result.success
  /\ call.result.content = "hi"
  /\ processes # <<>>
  /\ get_all_tools # <<>>
  /\ request_id >= 2

====
